---- MODULE Spec2Model ----
(***************************************************************************)
(* Model of the /api/voice_chat pipeline of backend/main.py: the handler   *)
(* voice_chat, its generator audio_stream (sentence segmentation, per      *)
(* sentence streaming synthesis with one-shot fallback, flush of the       *)
(* remainder, persistence of the turn) and the two synthesis helpers       *)
(* eleven_stream_tts and eleven_tts_once.                                  *)
(*                                                                         *)
(* Text is a sequence of one-character strings.  The generator is a        *)
(* Python generator: it is suspended at every `yield` until the response   *)
(* writer asks for the next chunk, or is closed (GeneratorExit) when the   *)
(* client has gone away.                                                   *)
(***************************************************************************)
EXTENDS Integers, Sequences, FiniteSets, TLC

(* ---------------------------- bounds ---------------------------------- *)
\* longest response text (sum of the lengths of all deltas) that is explored
MaxText == 4
\* longest single text delta
MaxDeltaLen == 3
\* most chunks one streaming synthesis call yields
MaxChunks == 2

\* most media ranges in an explored Accept header
MaxAccept == 2

\* longest elapsed time, in milliseconds, between request start and turn insert
MaxElapsed == 2
\* longest reply text explored where the text is produced in one piece
MaxReply == 2

\* most conversations of the calling user that the service stores at once
MaxConvs == 1
\* most turn rows that the service stores at once, and the highest turn
\* number it hands out
MaxTurns == 4

\* requests that finalize a turn at the same time
MaxRequests == 3

\* versions of the content of a prompt variant that are told apart
MaxVersions == 2

\* last second of the clock of the prompt cache, and the largest configured
\* ttl_seconds
MaxClock == 1
\* most rows of prompts, and of prompt_assignments
MaxPrompts == 2

\* characters that occur in the explored texts: a letter, the three
\* sentence-terminal marks of the regex, a whitespace character
Alphabet == {"a", ".", "?", " "}

(* ------------------------ program constants --------------------------- *)
\* [\.!?] of the sentence regex
Terminal == {".", "!", "?"}
\* \s of the sentence regex, and what str.strip() removes
Whitespace == {" ", "\t", "\n", "\r"}
\* os.getenv("ELEVENLABS_DEFAULT_VOICE", ...)
default_voice == "v_default"
\* [voice.id for voice in AVAILABLE_VOICES]
valid_voice_ids == {"v_default", "v_other"}
\* the voice_id query parameter: absent, a known voice, an unknown voice
VoiceParams == {"none", "v_other", "v_bad"}
\* identifier of the conversation that is already stored for the user
ExistingConv == "conv_stored"
\* identifier given to a conversation the request creates
NewConv == "conv_new"
NoConv == "None"
\* request.message
UserMessage == "msg"

(* --------------------------- text helpers ----------------------------- *)
\* all texts over the alphabet of length 1..n
Texts(n) == UNION {[1..k -> Alphabet] : k \in 1..n}

\* re.search(r"([\s\S]*?[\.!?])\s+", buffer) matches at i: the lazy prefix
\* ends at the first terminal mark that is followed by whitespace
IsBoundary(buf, i) ==
    /\ i \in 1..(Len(buf) - 1)
    /\ buf[i] \in Terminal
    /\ buf[i + 1] \in Whitespace

HasMatch(buf) == \E i \in 1..Len(buf) : IsBoundary(buf, i)

\* index of the last character of m.group(1)
MatchGroupEnd(buf) ==
    CHOOSE i \in 1..Len(buf) :
        /\ IsBoundary(buf, i)
        /\ \A j \in 1..(i - 1) : ~IsBoundary(buf, j)

\* m.end(): \s+ is greedy, it takes every whitespace character that follows
MatchEnd(buf) ==
    LET g == MatchGroupEnd(buf)
    IN  CHOOSE e \in (g + 1)..Len(buf) :
            /\ \A j \in (g + 1)..e : buf[j] \in Whitespace
            /\ (e = Len(buf) \/ buf[e + 1] \notin Whitespace)

\* m.group(1)
MatchGroup(buf) == SubSeq(buf, 1, MatchGroupEnd(buf))

\* buffer[m.end():]
AfterMatch(buf) == SubSeq(buf, MatchEnd(buf) + 1, Len(buf))

\* a test that takes a buffer of whitespace only for text to flush
StripNonEmptyAnyCharacter(buf) == buf # <<>>

\* bool(buffer.strip())
StripNonEmpty(buf) == \E i \in 1..Len(buf) : buf[i] \notin Whitespace

\* "audio/pcm" if pcm_requested else "audio/mpeg"
OutputMime(pcm) == IF pcm THEN "audio/pcm" ELSE "audio/mpeg"

\* a response that always declares the compressed format
MediaTypeAlwaysMpeg(pcm) == "audio/mpeg"

\* media_type=("audio/pcm" if pcm_requested else "audio/mpeg")
MediaType(pcm) == IF pcm THEN "audio/pcm" ELSE "audio/mpeg"

\* str.lower() on the header and environment values that are explored
Lower(v) ==
    CASE v = "TRUE" -> "true"
      [] v = "AUDIO/PCM" -> "audio/pcm"
      [] v = "iOS" -> "ios"
      [] OTHER -> v

\* values of the PCM_STREAMING_ENABLED environment variable
EnvValues == {"unset", "true", "TRUE", "false", "1"}
\* media ranges of an Accept header; the header is the sequence of its ranges
AcceptRanges == {"audio/pcm", "AUDIO/PCM", "audio/pcm;rate=16000", "audio/mpeg", "*/*"}
\* values of the X-Client-Platform header
PlatformValues == {"absent", "ios", "iOS", "android"}

\* os.getenv("PCM_STREAMING_ENABLED", "false").lower() == "true"
PcmEnvEnabled(env) == Lower(IF env = "unset" THEN "false" ELSE env) = "true"

\* "audio/pcm" in accept_header, accept_header being the lower-cased header:
\* the substring occurs in one of its media ranges
AcceptHasPcm(accept) ==
    \E i \in 1..Len(accept) :
        Lower(accept[i]) \in {"audio/pcm", "audio/pcm;rate=16000"}

\* (raw_request.headers.get("x-client-platform") or "").lower()
ClientPlatform(platform) == IF platform = "absent" THEN "" ELSE Lower(platform)

\* a negotiation that offers raw samples whatever the feature flag says
PcmRequestedIgnoringFlag(flag, acceptHasPcm, platform) ==
    acceptHasPcm \/ platform = "ios"

\* pcm_env_enabled and (("audio/pcm" in accept_header) or (client_platform == "ios"))
PcmRequested(flag, acceptHasPcm, platform) ==
    flag /\ (acceptHasPcm \/ platform = "ios")

(* ----------------------------- state ---------------------------------- *)
VARIABLES
    pc,              \* position of the handler / generator
    draining,        \* FALSE in the event loop, TRUE once the flush has started
    buffer,          \* audio_stream: buffer
    assistant_text,  \* audio_stream: assistant_text
    sentence,        \* text handed to the synthesis calls of the current unit
    selected_voice,  \* voice_chat: selected_voice
    pcm_requested,   \* voice_chat: pcm_requested
    conversation,    \* voice_chat: conversation (NoConv when None)
    header_convo_id, \* X-Conversation-Id header (NoConv when absent)
    status,          \* HTTP status of the response (0 before it is decided)
    media_type,      \* media_type of the StreamingResponse ("none" before)
    req,             \* raw inputs of the request, where a specification records them
    turns,           \* rows of conversation_turns
    conversations,   \* ids of the rows of conversations
    sent,            \* audio chunks the response has written to the client
    pending,         \* chunk handed over at the yield the generator is suspended at
    nchunks,         \* chunks the running streaming call has yielded
    calls,           \* synthesis calls made, in order
    units,           \* sentence units emitted, in order
    received,        \* concatenation of the text deltas taken from the stream
    outcome,         \* per unit: how its synthesis ended
    log,             \* what the request printed / how it ended
    clock,           \* time.time(), in seconds
    store,           \* _TtlCache._store: key -> (value, expires_at)
    prompts,         \* rows of prompts: id -> content and is_active
    assignments,     \* rows of prompt_assignments, by effective_at
    variants,        \* PromptVariantManager.variants: name -> prompt
    active_variant,  \* PromptVariantManager.active_variant
    returned         \* what the last call of a prompt service returned

vars == <<pc, draining, buffer, assistant_text, sentence, selected_voice,
          pcm_requested, conversation, header_convo_id, status, media_type,
          req, turns, conversations, sent, pending, nchunks, calls, units, received,
          outcome, log, clock, store, prompts, assignments, variants,
          active_variant, returned>>

\* the variables of the generator's text and audio path
pipeVars == <<buffer, assistant_text, sentence, sent, pending, nchunks,
              calls, units, received, outcome>>
reqVars == <<selected_voice, pcm_requested, conversation, header_convo_id,
             status, media_type, req, conversations>>
\* the variables of the prompt services
promptVars == <<clock, store, prompts, assignments, variants, active_variant,
               returned>>

NoChunk == [unit |-> 0, src |-> "none", idx |-> 0]

\* the log of a request: which of the two print() branches ran, how often the
\* turn insert was attempted and done, whether the generator was closed by the
\* response writer, whether an exception left the generator, how many error
\* events or error responses the caller was sent
EmptyLog == [upstream_failed |-> FALSE, outer_except |-> FALSE,
             persist_failed |-> FALSE, persist_attempts |-> 0,
             inserted |-> 0, closed |-> FALSE, raised |-> FALSE,
             error_events |-> 0]

\* the rows of conversation_turns before the request: one earlier turn of the
\* stored conversation
StoredTurns ==
    <<[conversation_id |-> ExistingConv, turn_number |-> 1,
       user_input |-> "earlier", ai_response |-> <<"a">>,
       voice_used |-> default_voice]>>

\* Spec explores every request without keeping its raw header, environment
\* and body values: only what the handler derives from them is state
Unrecorded == [recorded |-> FALSE]

Init ==
    /\ pc = "idle"
    /\ draining = FALSE
    /\ buffer = <<>>
    /\ assistant_text = <<>>
    /\ sentence = <<>>
    /\ selected_voice = "none"
    /\ pcm_requested = FALSE
    /\ conversation = NoConv
    /\ header_convo_id = NoConv
    /\ status = 0
    /\ media_type = "none"
    /\ req = Unrecorded
    /\ turns = StoredTurns
    /\ conversations = {ExistingConv}
    /\ sent = <<>>
    /\ pending = NoChunk
    /\ nchunks = 0
    /\ calls = <<>>
    /\ units = <<>>
    /\ received = <<>>
    /\ outcome = <<>>
    /\ log = EmptyLog
    /\ clock = 0
    /\ store = <<>>
    /\ prompts = <<>>
    /\ assignments = <<>>
    /\ variants = <<>>
    /\ active_variant = "None"
    /\ returned = "None"

(* ------------------------- voice_chat handler ------------------------- *)
\* selected_voice = voice_id or default_voice
SelectedVoice(voice_id) == IF voice_id = "none" THEN default_voice ELSE voice_id

\* the conversation the pre-resolution block ends with, per request shape:
\*   "new"          start_new: a conversation is added and committed
\*   "byid"         conversation_id of a stored conversation of the user
\*   "byid_missing" conversation_id that is unknown or foreign: the
\*                  HTTPException is caught by the block's own except
\*   "latest"       neither: the latest active conversation of the user
\*   "db_error"     the query or commit raised
ResolveConversation(shape) ==
    CASE shape = "new" -> NewConv
      [] shape = "byid" -> ExistingConv
      [] shape = "latest" -> ExistingConv
      [] OTHER -> NoConv

RequestShapes == {"new", "byid", "byid_missing", "latest", "db_error"}

\* voice_chat up to `return StreamingResponse(...)`
StartRequest ==
    /\ pc = "idle"
    /\ \E voice_id \in VoiceParams, shape \in RequestShapes,
          flag \in BOOLEAN, acceptHasPcm \in BOOLEAN, platform \in {"ios", "web"} :
        IF SelectedVoice(voice_id) \notin valid_voice_ids
        THEN /\ pc' = "rejected"
             /\ status' = 400
             /\ log' = [log EXCEPT !.error_events = 1]
             /\ UNCHANGED <<selected_voice, pcm_requested, conversation,
                            header_convo_id, media_type, conversations>>
        ELSE /\ pc' = "events"
             /\ status' = 200
             /\ selected_voice' = SelectedVoice(voice_id)
             /\ conversation' = ResolveConversation(shape)
             /\ header_convo_id' = ResolveConversation(shape)
             /\ conversations' = IF shape = "new"
                                 THEN conversations \cup {NewConv}
                                 ELSE conversations
             /\ pcm_requested' = PcmRequested(flag, acceptHasPcm, platform)
             /\ media_type' = MediaType(pcm_requested')
             /\ UNCHANGED log
    /\ UNCHANGED <<draining, turns, req>>
    /\ UNCHANGED pipeVars
    /\ UNCHANGED promptVars

(* ------------------------ generation stream --------------------------- *)
\* `for event in stream`: a content_block_delta with a non-empty text piece;
\* buffer += text_piece.  Events of other types and empty pieces change
\* nothing and are not modelled.
NextDelta ==
    /\ pc = "events"
    /\ \E d \in Texts(MaxDeltaLen) :
        /\ Len(received) + Len(d) <= MaxText
        /\ buffer' = buffer \o d
        /\ received' = received \o d
    /\ pc' = "scan"
    /\ UNCHANGED <<draining, assistant_text, sentence, sent, pending, nchunks,
                   calls, units, outcome, turns, log>>
    /\ UNCHANGED reqVars
    /\ UNCHANGED promptVars

\* message_stop (break), or the iterator is exhausted
MessageStop ==
    /\ pc = "events"
    /\ pc' = "flush"
    /\ UNCHANGED <<draining, turns, log>>
    /\ UNCHANGED pipeVars
    /\ UNCHANGED reqVars
    /\ UNCHANGED promptVars

\* an except clause placed around the event loop only, so that the persist
\* block still runs after a failed generation stream
UpstreamErrorThenPersist ==
    /\ pc = "events"
    /\ pc' = "persist"
    /\ log' = [log EXCEPT !.upstream_failed = TRUE, !.outer_except = TRUE]
    /\ UNCHANGED <<draining, turns>>
    /\ UNCHANGED pipeVars
    /\ UNCHANGED reqVars
    /\ UNCHANGED promptVars

\* an except clause that reports the failure to the caller while nothing has
\* been sent yet
UpstreamErrorReported ==
    /\ pc = "events"
    /\ pc' = "done"
    /\ log' = [log EXCEPT !.upstream_failed = TRUE, !.outer_except = TRUE,
                          !.error_events = IF sent = <<>> THEN @ + 1 ELSE @]
    /\ UNCHANGED <<draining, turns>>
    /\ UNCHANGED pipeVars
    /\ UNCHANGED reqVars
    /\ UNCHANGED promptVars

\* client.messages.stream(...) or the iteration raises: the exception leaves
\* the with block and reaches the outer `except Exception`, which prints
UpstreamError ==
    /\ pc = "events"
    /\ pc' = "done"
    /\ log' = [log EXCEPT !.upstream_failed = TRUE, !.outer_except = TRUE]
    /\ UNCHANGED <<draining, turns>>
    /\ UNCHANGED pipeVars
    /\ UNCHANGED reqVars
    /\ UNCHANGED promptVars

(* --------------------------- segmentation ----------------------------- *)
\* the arguments of eleven_stream_tts(text=..., voice_id=..., output_mime=...)
StreamCall(u, text, voice, pcm) ==
    [kind |-> "stream", unit |-> u, text |-> text, voice_id |-> voice,
     output_mime |-> OutputMime(pcm)]

\* a fallback that always asks for the default mime type
OnceCallDefaultMime(u, text, voice, pcm) ==
    [kind |-> "once", unit |-> u, text |-> text, voice_id |-> voice,
     output_mime |-> "audio/mpeg"]

\* the arguments of eleven_tts_once(text=..., voice_id=..., output_mime=...)
OnceCall(u, text, voice, pcm) ==
    [kind |-> "once", unit |-> u, text |-> text, voice_id |-> voice,
     output_mime |-> OutputMime(pcm)]

\* `if not m: break`
ScanNoMatch ==
    /\ pc = "scan"
    /\ ~HasMatch(buffer)
    /\ pc' = "events"
    /\ UNCHANGED <<draining, turns, log>>
    /\ UNCHANGED pipeVars
    /\ UNCHANGED reqVars
    /\ UNCHANGED promptVars

\* a cut at the first terminal mark of the buffer, whatever follows it
CutSentenceAtAnyMark ==
    /\ pc = "scan"
    /\ \E g \in 1..Len(buffer) :
        /\ buffer[g] \in Terminal
        /\ \A j \in 1..(g - 1) : buffer[j] \notin Terminal
        /\ sentence' = SubSeq(buffer, 1, g)
        /\ buffer' = SubSeq(buffer, g + 1, Len(buffer))
        /\ assistant_text' = assistant_text \o SubSeq(buffer, 1, g)
        /\ units' = Append(units, SubSeq(buffer, 1, g))
        /\ calls' = Append(calls, StreamCall(Len(units) + 1,
                                             SubSeq(buffer, 1, g),
                                             selected_voice, pcm_requested))
    /\ outcome' = Append(outcome, "streaming")
    /\ nchunks' = 0
    /\ pc' = "tts"
    /\ UNCHANGED <<draining, sent, pending, received, turns, log>>
    /\ UNCHANGED reqVars
    /\ UNCHANGED promptVars

\* a cut that starts the synthesis of the sentence in the background and goes
\* on scanning without waiting for it
CutSentenceAsync ==
    /\ pc = "scan"
    /\ HasMatch(buffer)
    /\ sentence' = MatchGroup(buffer)
    /\ buffer' = AfterMatch(buffer)
    /\ assistant_text' = assistant_text \o MatchGroup(buffer)
    /\ units' = Append(units, MatchGroup(buffer))
    /\ calls' = Append(calls, StreamCall(Len(units) + 1, MatchGroup(buffer),
                                         selected_voice, pcm_requested))
    /\ outcome' = Append(outcome, "streaming")
    /\ nchunks' = 0
    /\ pc' = "scan"
    /\ UNCHANGED <<draining, sent, pending, received, turns, log>>
    /\ UNCHANGED reqVars
    /\ UNCHANGED promptVars

\* sentence = m.group(1); buffer = buffer[m.end():]; assistant_text += sentence;
\* the streaming synthesis call for the sentence is made
CutSentence ==
    /\ pc = "scan"
    /\ HasMatch(buffer)
    /\ sentence' = MatchGroup(buffer)
    /\ buffer' = AfterMatch(buffer)
    /\ assistant_text' = assistant_text \o MatchGroup(buffer)
    /\ units' = Append(units, MatchGroup(buffer))
    /\ calls' = Append(calls, StreamCall(Len(units) + 1, MatchGroup(buffer),
                                         selected_voice, pcm_requested))
    /\ outcome' = Append(outcome, "streaming")
    /\ nchunks' = 0
    /\ pc' = "tts"
    /\ UNCHANGED <<draining, sent, pending, received, turns, log>>
    /\ UNCHANGED reqVars
    /\ UNCHANGED promptVars

\* a flush that synthesises the remainder without adding it to assistant_text
FlushTailUnrecorded ==
    /\ pc = "flush"
    /\ StripNonEmpty(buffer)
    /\ sentence' = buffer
    /\ units' = Append(units, buffer)
    /\ calls' = Append(calls, StreamCall(Len(units) + 1, buffer,
                                         selected_voice, pcm_requested))
    /\ outcome' = Append(outcome, "streaming")
    /\ nchunks' = 0
    /\ draining' = TRUE
    /\ pc' = "tts"
    /\ UNCHANGED <<buffer, assistant_text, sent, pending, received, turns, log>>
    /\ UNCHANGED reqVars
    /\ UNCHANGED promptVars

\* `if buffer.strip():` assistant_text += buffer, then the streaming call
FlushTail ==
    /\ pc = "flush"
    /\ StripNonEmpty(buffer)
    /\ sentence' = buffer
    /\ assistant_text' = assistant_text \o buffer
    /\ units' = Append(units, buffer)
    /\ calls' = Append(calls, StreamCall(Len(units) + 1, buffer,
                                         selected_voice, pcm_requested))
    /\ outcome' = Append(outcome, "streaming")
    /\ nchunks' = 0
    /\ draining' = TRUE
    /\ pc' = "tts"
    /\ UNCHANGED <<buffer, sent, pending, received, turns, log>>
    /\ UNCHANGED reqVars
    /\ UNCHANGED promptVars

\* buffer.strip() is empty: nothing is flushed
FlushEmpty ==
    /\ pc = "flush"
    /\ ~StripNonEmpty(buffer)
    /\ draining' = TRUE
    /\ pc' = "persist"
    /\ UNCHANGED <<turns, log>>
    /\ UNCHANGED pipeVars
    /\ UNCHANGED reqVars
    /\ UNCHANGED promptVars

(* ----------------------------- synthesis ------------------------------ *)
\* a generator that leaves the event loop for the persist block as soon as one
\* unit has been synthesized
AfterUnitPersistEarly(dr) == "persist"

\* where the generator goes on once the synthesis of a unit is over: back to
\* the `while True` scan inside the event loop, or on to the persist block
AfterUnit(dr) == IF dr THEN "persist" ELSE "scan"

\* a yield that puts the chunk in front of what the client already has
DeliverOutOfOrder(s, c) == <<c>> \o s

\* what `yield chunk` hands to the client, after what it has already got
Deliver(s, c) == Append(s, c)

CurrentUnit == Len(units)

\* eleven_stream_tts yields a non-empty chunk; audio_stream yields it on
TtsChunk ==
    /\ pc = "tts"
    /\ nchunks < MaxChunks
    /\ nchunks' = nchunks + 1
    /\ pending' = [unit |-> CurrentUnit, src |-> "stream", idx |-> nchunks + 1]
    /\ pc' = "yield"
    /\ UNCHANGED <<draining, buffer, assistant_text, sentence, sent, calls,
                   units, received, outcome, turns, log>>
    /\ UNCHANGED reqVars
    /\ UNCHANGED promptVars

\* the streaming call is exhausted without an exception
TtsDone ==
    /\ pc = "tts"
    /\ outcome' = [outcome EXCEPT ![CurrentUnit] = "streamed"]
    /\ pc' = AfterUnit(draining)
    /\ UNCHANGED <<draining, buffer, assistant_text, sentence, sent, pending,
                   nchunks, calls, units, received, turns, log>>
    /\ UNCHANGED reqVars
    /\ UNCHANGED promptVars

\* the streaming call raises (raise_for_status, or an error while iterating,
\* before the first chunk or after some): `except Exception:` makes the
\* one-shot call with the same text.  (ELEVENLABS_STREAM_LATENCY and
\* ELEVENLABS_STREAM_CHUNK_SIZE are taken to hold integers, as their defaults
\* do, so that int(os.getenv(...)) inside the same try does not raise.)
TtsRaise ==
    /\ pc = "tts"
    /\ calls' = Append(calls, OnceCall(CurrentUnit, sentence, selected_voice,
                                       pcm_requested))
    /\ outcome' = [outcome EXCEPT ![CurrentUnit] = "fallback_called"]
    /\ pc' = "once"
    /\ UNCHANGED <<draining, buffer, assistant_text, sentence, sent, pending,
                   nchunks, units, received, turns, log>>
    /\ UNCHANGED reqVars
    /\ UNCHANGED promptVars

\* eleven_tts_once returns non-empty bytes: `yield audio_bytes`
OnceOk ==
    /\ pc = "once"
    /\ pending' = [unit |-> CurrentUnit, src |-> "once", idx |-> 1]
    /\ outcome' = [outcome EXCEPT ![CurrentUnit] = "fallback"]
    /\ pc' = "yield"
    /\ UNCHANGED <<draining, buffer, assistant_text, sentence, sent, nchunks,
                   calls, units, received, turns, log>>
    /\ UNCHANGED reqVars
    /\ UNCHANGED promptVars

\* eleven_tts_once returns b"": `if audio_bytes:` skips the yield
OnceEmpty ==
    /\ pc = "once"
    /\ outcome' = [outcome EXCEPT ![CurrentUnit] = "fallback_empty"]
    /\ pc' = AfterUnit(draining)
    /\ UNCHANGED <<draining, buffer, assistant_text, sentence, sent, pending,
                   nchunks, calls, units, received, turns, log>>
    /\ UNCHANGED reqVars
    /\ UNCHANGED promptVars

\* a fallback that is called once more with the same text when it raises
OnceRaiseRetries ==
    /\ pc = "once"
    /\ calls' = Append(calls, OnceCall(CurrentUnit, sentence, selected_voice,
                                       pcm_requested))
    /\ outcome' = [outcome EXCEPT ![CurrentUnit] = "fallback_called"]
    /\ pc' = "once"
    /\ UNCHANGED <<draining, buffer, assistant_text, sentence, sent, pending,
                   nchunks, units, received, turns, log>>
    /\ UNCHANGED reqVars
    /\ UNCHANGED promptVars

\* eleven_tts_once raises.  In the event loop the call is inside
\* `try: ... except Exception: pass`; in the flush it is not, and the
\* exception reaches the outer `except Exception`, past the persist block
OnceRaise ==
    /\ pc = "once"
    /\ outcome' = [outcome EXCEPT ![CurrentUnit] = "failed"]
    /\ IF draining
       THEN /\ pc' = "done"
            /\ log' = [log EXCEPT !.outer_except = TRUE]
       ELSE /\ pc' = "scan"
            /\ UNCHANGED log
    /\ UNCHANGED <<draining, buffer, assistant_text, sentence, sent, pending,
                   nchunks, calls, units, received, turns>>
    /\ UNCHANGED reqVars
    /\ UNCHANGED promptVars

\* a writer that, given the fallback audio of a unit, takes back the chunks
\* the failed streaming call of that unit had produced
ForwardFallbackAlone ==
    /\ pc = "yield"
    /\ sent' = IF pending.src = "once"
               THEN Append(SelectSeq(sent, LAMBDA c : c.unit # pending.unit),
                           pending)
               ELSE Deliver(sent, pending)
    /\ pending' = NoChunk
    /\ pc' = IF pending.src = "stream" THEN "tts" ELSE AfterUnit(draining)
    /\ UNCHANGED <<draining, buffer, assistant_text, sentence, nchunks, calls,
                   units, received, outcome, turns, log>>
    /\ UNCHANGED reqVars
    /\ UNCHANGED promptVars

\* the response writer sends the yielded chunk and resumes the generator
Forward ==
    /\ pc = "yield"
    /\ sent' = Deliver(sent, pending)
    /\ pending' = NoChunk
    /\ pc' = IF pending.src = "stream" THEN "tts" ELSE AfterUnit(draining)
    /\ UNCHANGED <<draining, buffer, assistant_text, sentence, nchunks, calls,
                   units, received, outcome, turns, log>>
    /\ UNCHANGED reqVars
    /\ UNCHANGED promptVars

\* the client goes away while the generator is suspended at a yield: the
\* generator is closed there.  GeneratorExit is not an Exception, so neither
\* the inner nor the outer `except Exception` runs and nothing after the
\* yield runs.  The chunk handed over at that yield may or may not have
\* reached the client.
ClientDisconnect ==
    /\ pc = "yield"
    /\ \E delivered \in BOOLEAN :
        sent' = IF delivered THEN Deliver(sent, pending) ELSE sent
    /\ pending' = NoChunk
    /\ pc' = "done"
    /\ log' = [log EXCEPT !.closed = TRUE]
    /\ UNCHANGED <<draining, buffer, assistant_text, sentence, nchunks, calls,
                   units, received, outcome, turns>>
    /\ UNCHANGED reqVars
    /\ UNCHANGED promptVars

(* ---------------------------- persistence ----------------------------- *)
TurnsOf(conv) == {i \in 1..Len(turns) : turns[i].conversation_id = conv}

\* a numbering by the count of stored turns
NextTurnNumberByCount(conv) == Cardinality(TurnsOf(conv)) + 1

\* next_turn_number = (last_turn.turn_number + 1) if last_turn else 1
NextTurnNumber(conv) ==
    IF TurnsOf(conv) = {}
    THEN 1
    ELSE 1 + (CHOOSE n \in {turns[i].turn_number : i \in TurnsOf(conv)} :
                 \A i \in TurnsOf(conv) : turns[i].turn_number <= n)

\* ConversationTurn(...); db.add(turn); db.commit()
PersistTurn ==
    /\ pc = "persist"
    /\ conversation # NoConv
    /\ turns' = Append(turns,
                  [conversation_id |-> conversation,
                   turn_number |-> NextTurnNumber(conversation),
                   user_input |-> UserMessage,
                   ai_response |-> assistant_text,
                   voice_used |-> selected_voice])
    /\ log' = [log EXCEPT !.persist_attempts = @ + 1, !.inserted = @ + 1]
    /\ pc' = "done"
    /\ UNCHANGED draining
    /\ UNCHANGED pipeVars
    /\ UNCHANGED reqVars
    /\ UNCHANGED promptVars

\* `if conversation_id_str is not None:` is false: no conversation was resolved
PersistSkip ==
    /\ pc = "persist"
    /\ conversation = NoConv
    /\ pc' = "done"
    /\ UNCHANGED <<draining, turns, log>>
    /\ UNCHANGED pipeVars
    /\ UNCHANGED reqVars
    /\ UNCHANGED promptVars

\* a persist block without its own try/except and without the outer one: the
\* exception leaves the generator while the response is being written
PersistFailRaises ==
    /\ pc = "persist"
    /\ conversation # NoConv
    /\ log' = [log EXCEPT !.persist_attempts = @ + 1, !.persist_failed = TRUE,
                          !.raised = TRUE]
    /\ pc' = "done"
    /\ UNCHANGED <<draining, turns>>
    /\ UNCHANGED pipeVars
    /\ UNCHANGED reqVars
    /\ UNCHANGED promptVars

\* the query or the commit raises: `except Exception as persist_err: print(...)`
PersistFail ==
    /\ pc = "persist"
    /\ conversation # NoConv
    /\ log' = [log EXCEPT !.persist_attempts = @ + 1, !.persist_failed = TRUE]
    /\ pc' = "done"
    /\ UNCHANGED <<draining, turns>>
    /\ UNCHANGED pipeVars
    /\ UNCHANGED reqVars
    /\ UNCHANGED promptVars

(* -------------------------- specification ----------------------------- *)
Next ==
    \/ StartRequest
    \/ NextDelta
    \/ MessageStop
    \/ UpstreamError
    \/ ScanNoMatch
    \/ CutSentence
    \/ FlushTail
    \/ FlushEmpty
    \/ TtsChunk
    \/ TtsDone
    \/ TtsRaise
    \/ OnceOk
    \/ OnceEmpty
    \/ OnceRaise
    \/ Forward
    \/ ClientDisconnect
    \/ PersistTurn
    \/ PersistSkip
    \/ PersistFail

Spec == Init /\ [][Next]_vars

TypeOK ==
    /\ pc \in {"idle", "rejected", "events", "scan", "tts", "once", "yield",
               "flush", "persist", "done"}
    /\ draining \in BOOLEAN
    /\ Len(received) <= MaxText
    /\ nchunks \in 0..MaxChunks
    /\ Len(outcome) = Len(units)

(* ============================ properties ============================== *)
RECURSIVE Flatten(_)
Flatten(ss) == IF ss = <<>> THEN <<>> ELSE Head(ss) \o Flatten(Tail(ss))

\* the response text begins and ends with a visible character, as the
\* responses of the endpoint tests do
VisibleEnds(t) ==
    /\ t # <<>>
    /\ t[1] \notin Whitespace
    /\ t[Len(t)] \notin Whitespace

\* the synthesis of unit u is over
UnitOver(u) == outcome[u] \in {"streamed", "fallback", "fallback_empty", "failed"}
                 /\ ~(pending.unit = u)

\* the request ran to its end without a generation failure, a client
\* disconnect or an unresolved conversation
QuietEnd ==
    /\ pc = "done"
    /\ conversation # NoConv
    /\ ~log.closed
    /\ ~log.upstream_failed

LastTurn == turns[Len(turns)]

\* C1: segmentation is lossless: once the remainder has been flushed, the
\* concatenation of the emitted sentence units, in emission order, equals the
\* concatenation of the text deltas (stated for responses that begin and end
\* with a visible character)
C1_Lossless ==
    (draining /\ VisibleEnds(received)) => Flatten(units) = received

\* C2: audio is forwarded in unit order: a chunk of a later unit is forwarded
\* only when the synthesis of every earlier unit is over and all its chunks
\* have been forwarded, the chunks of one streaming call are forwarded in the
\* order the call returned them, and the fallback blob of a unit comes after
\* the chunks its streaming call had yielded
C2_ForwardOrder ==
    /\ \A i, j \in 1..Len(sent) :
         i < j =>
           \/ sent[i].unit < sent[j].unit
           \/ /\ sent[i].unit = sent[j].unit
              /\ sent[i].src = "stream"
              /\ (sent[j].src = "stream" => sent[i].idx < sent[j].idx)
    /\ \A k \in 1..Len(sent) :
         \A u \in 1..(sent[k].unit - 1) : UnitOver(u)
    /\ pending # NoChunk =>
         /\ pending.unit = CurrentUnit
         /\ \A k \in 1..Len(sent) : sent[k].unit <= pending.unit

C2_Witness ==
    /\ Len(sent) >= 3
    /\ \E i, j \in 1..Len(sent) : sent[i].unit < sent[j].unit
    /\ \E i \in 1..Len(sent) : sent[i].src = "once"
    /\ \E u \in 1..Len(outcome) : outcome[u] = "failed"

\* C3: the turn insert is attempted exactly once in every request that ends
\* without a generation failure or a disconnect and with a resolved
\* conversation, however many units failed synthesis
C3_FinalizerOnce == QuietEnd => log.persist_attempts = 1

\* C4: a unit whose streaming call and fallback both failed has no audio in
\* the output, its text is in the persisted assistant text, and the request
\* completes with the turn persisted
C4_FailedUnitKept ==
    \A k \in 1..Len(outcome) :
        (QuietEnd /\ outcome[k] = "failed" /\ ~log.persist_failed) =>
            /\ \A i \in 1..Len(sent) : sent[i].unit # k
            /\ log.inserted = 1
            /\ LastTurn.ai_response = assistant_text
            /\ assistant_text = Flatten(units)

\* the calls made for unit u, in order
CallsOf(u) == SelectSeq(calls, LAMBDA c : c.unit = u)

C6_DisconnectPersists ==
    (pc = "done" /\ log.closed /\ conversation # NoConv) =>
        /\ log.inserted = 1
        /\ LastTurn.ai_response = assistant_text

\* C7: when the generation stream ends normally the persisted assistant text
\* is the concatenation of the text deltas (stated for responses that begin
\* and end with a visible character)
C7_PersistedIsResponse ==
    (pc = "done" /\ log.inserted = 1 /\ VisibleEnds(received)) =>
        LastTurn.ai_response = received

\* C8: a failing turn write is swallowed: the step in which it fails ends the
\* generator normally, leaves the delivered audio as it is, raises nothing
\* into the response and sends the caller no error
C8_PersistFailureSwallowed ==
    [][(pc = "persist" /\ log'.persist_failed) =>
          /\ pc' = "done"
          /\ sent' = sent
          /\ status' = 200
          /\ ~log'.raised
          /\ log'.error_events = 0
          /\ turns' = turns]_vars

C8_Witness ==
    /\ pc = "done"
    /\ log.persist_failed
    /\ Len(sent) >= 2
    /\ ~log.raised

\* C9: a generation stream that fails before any text has arrived ends the
\* request without a turn: the insert is not attempted and the stored turns
\* are the ones stored before the request
C9_NoTurnOnEarlyFailure ==
    (log.upstream_failed /\ received = <<>>) =>
        /\ log.persist_attempts = 0
        /\ log.inserted = 0
        /\ turns = StoredTurns
        /\ pc = "done"

C9_Witness ==
    /\ pc = "done"
    /\ log.upstream_failed
    /\ received = <<>>
    /\ conversation = NewConv

\* C10 as stated: on a generation failure the caller gets exactly one error
\* event when no audio has been sent, and none when audio has been sent
C10_ErrorEventIfNothingSent ==
    (pc = "done" /\ log.upstream_failed) =>
        log.error_events = (IF sent = <<>> THEN 1 ELSE 0)

\* C10 amended: on a generation failure the response, already begun with
\* status 200, ends without any error event whether or not audio has been
\* sent; the failure is printed by the outer except clause and nothing is
\* raised out of the generator
C10_SilentEnd ==
    log.upstream_failed =>
        /\ pc = "done"
        /\ status = 200
        /\ log.error_events = 0
        /\ log.outer_except
        /\ ~log.raised

C10_Witness ==
    /\ pc = "done"
    /\ log.upstream_failed
    /\ sent = <<>>
    /\ received # <<>>

\* C11: one format per request: every synthesis call of the request
\* (streaming and fallback, for units cut in the event loop and for the
\* flushed remainder) asks for the mime type of the format negotiated before
\* the stream began, and the response declares that same type
C11_OneFormat ==
    /\ \A i \in 1..Len(calls) : calls[i].output_mime = OutputMime(pcm_requested)
    /\ pc \notin {"idle", "rejected"} =>
         /\ media_type = OutputMime(pcm_requested)
         /\ media_type = (IF pcm_requested THEN "audio/pcm" ELSE "audio/mpeg")
    /\ pc \in {"idle", "rejected"} => calls = <<>>

C11_Witness ==
    /\ pc = "done"
    /\ pcm_requested
    /\ media_type = "audio/pcm"
    /\ Len(units) = 2
    /\ draining
    /\ Len(calls) = 4
    /\ \A i \in 1..Len(calls) : calls[i].output_mime = "audio/pcm"

(* ---------------- format negotiation on recorded inputs --------------- *)
\* the raw inputs of the format negotiation of one request
FormatInputs ==
    {[recorded |-> TRUE, env |-> e, accept |-> a, platform |-> p] :
        e \in EnvValues,
        a \in UNION {[1..k -> AcceptRanges] : k \in 0..MaxAccept},
        p \in PlatformValues}

InitFormat ==
    /\ pc = "negotiate"
    /\ req \in FormatInputs
    /\ draining = FALSE
    /\ buffer = <<>>
    /\ assistant_text = <<>>
    /\ sentence = <<>>
    /\ selected_voice = default_voice
    /\ pcm_requested = FALSE
    /\ conversation = ExistingConv
    /\ header_convo_id = ExistingConv
    /\ status = 0
    /\ media_type = "none"
    /\ turns = StoredTurns
    /\ conversations = {ExistingConv}
    /\ sent = <<>>
    /\ pending = NoChunk
    /\ nchunks = 0
    /\ calls = <<>>
    /\ units = <<>>
    /\ received = <<>>
    /\ outcome = <<>>
    /\ log = EmptyLog
    /\ clock = 0
    /\ store = <<>>
    /\ prompts = <<>>
    /\ assignments = <<>>
    /\ variants = <<>>
    /\ active_variant = "None"
    /\ returned = "None"

\* the format negotiation block of voice_chat
Negotiate ==
    /\ pc = "negotiate"
    /\ pcm_requested' = PcmRequested(PcmEnvEnabled(req.env),
                                     AcceptHasPcm(req.accept),
                                     ClientPlatform(req.platform))
    /\ pc' = "negotiated"
    /\ UNCHANGED <<selected_voice, conversation, header_convo_id, status,
                   media_type, req, conversations, draining, turns, log>>
    /\ UNCHANGED pipeVars
    /\ UNCHANGED promptVars

\* return StreamingResponse(..., media_type=...)
DeclareFormat ==
    /\ pc = "negotiated"
    /\ media_type' = MediaType(pcm_requested)
    /\ status' = 200
    /\ pc' = "declared"
    /\ UNCHANGED <<selected_voice, pcm_requested, conversation,
                   header_convo_id, req, conversations, draining, turns, log>>
    /\ UNCHANGED pipeVars
    /\ UNCHANGED promptVars

NextFormat == Negotiate \/ DeclareFormat

SpecFormat == InitFormat /\ [][NextFormat]_vars

\* C13: with the feature flag off raw output is never selected; with the flag
\* on it is selected exactly when the Accept header names audio/pcm or the
\* platform hint is ios (both compared without regard to case)
C13_RawOnlyIfFlag ==
    pc \in {"negotiated", "declared"} =>
        /\ req.env \notin {"true", "TRUE"} => ~pcm_requested
        /\ req.env \in {"true", "TRUE"} =>
             (pcm_requested <=>
                \/ \E i \in 1..Len(req.accept) :
                      req.accept[i] \in {"audio/pcm", "AUDIO/PCM",
                                         "audio/pcm;rate=16000"}
                \/ req.platform \in {"ios", "iOS"})
        /\ pc = "declared" =>
             media_type = (IF pcm_requested THEN "audio/pcm" ELSE "audio/mpeg")

C13_Witness ==
    /\ pc = "declared"
    /\ req.env = "TRUE"
    /\ req.platform = "iOS"
    /\ req.accept = <<"audio/mpeg">>
    /\ pcm_requested
    /\ media_type = "audio/pcm"

\* C14: whenever audio has been handed to the response, a conversation has
\* been resolved and its identifier is in the X-Conversation-Id header
C14_ConversationBeforeAudio ==
    (sent # <<>> \/ pending # NoChunk) =>
        /\ conversation # NoConv
        /\ header_convo_id = conversation

\* C15: the turn is written at most once, and only by the persist block after
\* the event loop and the flush are over: the step that changes the stored
\* turns starts with the generation stream left, no unit in synthesis, no
\* chunk waiting at a yield and no earlier insert, and adds one row
C15_WriteAfterDrain ==
    [][turns' # turns =>
          /\ pc = "persist"
          /\ draining
          /\ pending = NoChunk
          /\ \A u \in 1..Len(units) : UnitOver(u)
          /\ ~StripNonEmpty(buffer) \/ units[Len(units)] = buffer
          /\ log.inserted = 0
          /\ log'.inserted = 1
          /\ Len(turns') = Len(turns) + 1
          /\ pc' = "done"]_vars

C15_Witness ==
    /\ pc = "done"
    /\ log.inserted = 1
    /\ Len(units) = 2
    /\ outcome[2] = "fallback"
    /\ Len(sent) >= 2
    /\ Len(turns) = 2

\* C17: a request whose generation stream ends without any text leaves the
\* stored conversations as they were
C17_NoConversationOnEmpty ==
    (pc = "done" /\ received = <<>> /\ ~log.upstream_failed) =>
        conversations = {ExistingConv}

\* C19: single lane: a text delta is taken from the generation stream only
\* when no unit is in synthesis and no chunk waits at a yield, and at most one
\* unit is in synthesis at any time
C19_SingleLane ==
    [][/\ received' # received =>
            /\ pending = NoChunk
            /\ \A u \in 1..Len(units) : UnitOver(u)
       /\ Cardinality({u \in 1..Len(units') :
                          outcome'[u] \in {"streaming", "fallback_called"}
                          \/ pending'.unit = u}) <= 1]_vars

C19_Witness ==
    /\ pc = "scan"
    /\ ~draining
    /\ Len(units) = 1
    /\ outcome[1] = "fallback"
    /\ HasMatch(buffer)
    /\ Len(sent) = 2

(* ------------- the turn row of voice_chat on recorded inputs ---------- *)
\* request.attachments: absent, an empty list, a list with one image
AttachmentValues == {"None", "[]", "[image]"}

\* int((perf_counter() - start_time) * 1000), the clock read in milliseconds
ElapsedMs(start_ms, now_ms) == now_ms - start_ms

\* ConversationTurn(conversation_id=..., turn_number=..., user_input=...,
\* ai_response=..., response_time_ms=..., voice_used=...) of voice_chat; the
\* attachments column is not passed and keeps its default
BuildTurn(conv, n, message, text, elapsed, voice_id) ==
    [conversation_id |-> conv, turn_number |-> n, user_input |-> message,
     ai_response |-> text, response_time_ms |-> elapsed,
     voice_used |-> SelectedVoice(voice_id), attachments |-> "None"]

TurnInputs ==
    {[recorded |-> TRUE, voice_id |-> v, attachments |-> a,
      start_ms |-> t, now_ms |-> t] :
        v \in VoiceParams \ {"v_bad"}, a \in AttachmentValues, t \in 0..1}

\* the generator at the persist block, for every request and response text
InitTurn ==
    /\ pc = "persist"
    /\ req \in TurnInputs
    /\ draining = TRUE
    /\ buffer = <<>>
    /\ assistant_text \in {<<>>} \cup Texts(MaxReply)
    /\ sentence = <<>>
    /\ selected_voice = SelectedVoice(req.voice_id)
    /\ pcm_requested = FALSE
    /\ conversation \in {ExistingConv, NewConv}
    /\ header_convo_id = conversation
    /\ status = 200
    /\ media_type = MediaType(FALSE)
    /\ turns = StoredTurns
    /\ conversations = {ExistingConv, conversation}
    /\ sent = <<>>
    /\ pending = NoChunk
    /\ nchunks = 0
    /\ calls = <<>>
    /\ units = <<>>
    /\ received = assistant_text
    /\ outcome = <<>>
    /\ log = EmptyLog
    /\ clock = 0
    /\ store = <<>>
    /\ prompts = <<>>
    /\ assignments = <<>>
    /\ variants = <<>>
    /\ active_variant = "None"
    /\ returned = "None"

\* time passes between start_time = perf_counter() and the persist block
ClockTick ==
    /\ pc = "persist"
    /\ ElapsedMs(req.start_ms, req.now_ms) < MaxElapsed
    /\ req' = [req EXCEPT !.now_ms = @ + 1]
    /\ UNCHANGED <<pc, selected_voice, pcm_requested, conversation,
                   header_convo_id, status, media_type, conversations,
                   draining, turns, log>>
    /\ UNCHANGED pipeVars
    /\ UNCHANGED promptVars

\* the persist block with every column of the row it builds
InsertTurn ==
    /\ pc = "persist"
    /\ conversation # NoConv
    /\ turns' = Append(turns,
                  BuildTurn(conversation, NextTurnNumber(conversation),
                            UserMessage, assistant_text,
                            ElapsedMs(req.start_ms, req.now_ms), req.voice_id))
    /\ log' = [log EXCEPT !.persist_attempts = @ + 1, !.inserted = @ + 1]
    /\ pc' = "done"
    /\ UNCHANGED draining
    /\ UNCHANGED pipeVars
    /\ UNCHANGED reqVars
    /\ UNCHANGED promptVars

NextTurn == ClockTick \/ InsertTurn

SpecTurn == InitTurn /\ [][NextTurn]_vars

\* C16: the persisted turn records the conversation, the user input, the
\* assistant text, the elapsed time, the voice used for synthesis and, when
\* the request carried attachments, their metadata
C16_TurnFields ==
    pc = "done" =>
        /\ LastTurn.conversation_id = conversation
        /\ LastTurn.user_input = UserMessage
        /\ LastTurn.ai_response = assistant_text
        /\ LastTurn.response_time_ms = req.now_ms - req.start_ms
        /\ LastTurn.voice_used = selected_voice
        /\ req.attachments = "[image]" => LastTurn.attachments = req.attachments

(* ------------------------------ /api/chat ----------------------------- *)
\* the fixed reply used when response.content is empty
Apology == <<"I apologize, but I couldn't generate a response at this time.">>

\* ConversationTurn(...) of chat: voice_used=None,
\* attachments=request.attachments if request.attachments else None
ChatTurn(conv, n, message, text, elapsed, attachments) ==
    [conversation_id |-> conv, turn_number |-> n, user_input |-> message,
     ai_response |-> text, response_time_ms |-> elapsed,
     voice_used |-> "None",
     attachments |-> IF attachments = "[image]" THEN attachments ELSE "None"]

ChatInputs ==
    {[recorded |-> TRUE, shape |-> sh, attachments |-> a,
      start_ms |-> 0, now_ms |-> t] :
        sh \in RequestShapes, a \in AttachmentValues, t \in 0..MaxElapsed}

InitChat ==
    /\ pc = "chat"
    /\ req \in ChatInputs
    /\ draining = FALSE
    /\ buffer = <<>>
    /\ assistant_text = <<>>
    /\ sentence = <<>>
    /\ selected_voice = "None"
    /\ pcm_requested = FALSE
    /\ conversation = NoConv
    /\ header_convo_id = NoConv
    /\ status = 0
    /\ media_type = "none"
    /\ turns = StoredTurns
    /\ conversations = {ExistingConv}
    /\ sent = <<>>
    /\ pending = NoChunk
    /\ nchunks = 0
    /\ calls = <<>>
    /\ units = <<>>
    /\ received = <<>>
    /\ outcome = <<>>
    /\ log = EmptyLog
    /\ clock = 0
    /\ store = <<>>
    /\ prompts = <<>>
    /\ assignments = <<>>
    /\ variants = <<>>
    /\ active_variant = "None"
    /\ returned = "None"

\* client.messages.create(...) returns; ai_response is its first content
\* block, or the apology when there is none
ChatGenerate ==
    /\ pc = "chat"
    /\ \E text \in {<<>>} \cup Texts(MaxReply) :
        /\ received' = text
        /\ assistant_text' = IF text = <<>> THEN Apology ELSE text
    /\ pc' = "chat_persist"
    /\ UNCHANGED <<draining, buffer, sentence, sent, pending, nchunks, calls,
                   units, outcome, turns, log>>
    /\ UNCHANGED reqVars
    /\ UNCHANGED promptVars

\* a generation failure that comes after the conversation of a start_new
\* request has been created
ChatGenerateFailAfterCreate ==
    /\ pc = "chat"
    /\ pc' = "done"
    /\ status' = 500
    /\ conversations' = IF req.shape = "new"
                        THEN conversations \cup {NewConv}
                        ELSE conversations
    /\ log' = [log EXCEPT !.upstream_failed = TRUE, !.error_events = 1]
    /\ UNCHANGED <<selected_voice, pcm_requested, conversation,
                   header_convo_id, media_type, req, draining, turns>>
    /\ UNCHANGED pipeVars
    /\ UNCHANGED promptVars

\* client.messages.create(...) raises: the outer except clauses of chat turn
\* it into HTTPException(500); the persist block has not been reached
ChatGenerateFail ==
    /\ pc = "chat"
    /\ pc' = "done"
    /\ status' = 500
    /\ log' = [log EXCEPT !.upstream_failed = TRUE, !.error_events = 1]
    /\ UNCHANGED <<selected_voice, pcm_requested, conversation,
                   header_convo_id, media_type, req, conversations, draining,
                   turns>>
    /\ UNCHANGED pipeVars
    /\ UNCHANGED promptVars

\* the persist block of chat: the conversation is created or looked up, the
\* turn is inserted, the response carries the conversation id
ChatPersist ==
    /\ pc = "chat_persist"
    /\ req.shape \in {"new", "byid", "latest"}
    /\ conversation' = ResolveConversation(req.shape)
    /\ header_convo_id' = ResolveConversation(req.shape)
    /\ conversations' = conversations \cup {ResolveConversation(req.shape)}
    /\ turns' = Append(turns,
                  ChatTurn(ResolveConversation(req.shape),
                           NextTurnNumber(ResolveConversation(req.shape)),
                           UserMessage, assistant_text,
                           ElapsedMs(req.start_ms, req.now_ms),
                           req.attachments))
    /\ status' = 200
    /\ log' = [log EXCEPT !.persist_attempts = @ + 1, !.inserted = @ + 1]
    /\ pc' = "done"
    /\ UNCHANGED <<selected_voice, pcm_requested, media_type, req, draining>>
    /\ UNCHANGED pipeVars
    /\ UNCHANGED promptVars

\* the conversation_id is unknown or foreign: HTTPException(404/403) is
\* re-raised by `except HTTPException: raise` and then caught by the outer
\* `except Exception`, which answers 500
ChatPersistNotFound ==
    /\ pc = "chat_persist"
    /\ req.shape = "byid_missing"
    /\ status' = 500
    /\ log' = [log EXCEPT !.persist_attempts = @ + 1, !.error_events = 1]
    /\ pc' = "done"
    /\ UNCHANGED <<selected_voice, pcm_requested, conversation,
                   header_convo_id, media_type, req, conversations, draining,
                   turns>>
    /\ UNCHANGED pipeVars
    /\ UNCHANGED promptVars

\* a query or commit of the persist block raises: the failure is printed and
\* the reply is returned without a conversation id.  A conversation that a
\* start_new request had already committed stays.
ChatPersistFail ==
    /\ pc = "chat_persist"
    /\ \E committed \in BOOLEAN :
        conversations' = IF req.shape = "new" /\ committed
                         THEN conversations \cup {NewConv}
                         ELSE conversations
    /\ status' = 200
    /\ log' = [log EXCEPT !.persist_attempts = @ + 1, !.persist_failed = TRUE]
    /\ pc' = "done"
    /\ UNCHANGED <<selected_voice, pcm_requested, conversation,
                   header_convo_id, media_type, req, draining, turns>>
    /\ UNCHANGED pipeVars
    /\ UNCHANGED promptVars

NextChat ==
    \/ ChatGenerate
    \/ ChatGenerateFail
    \/ ChatPersist
    \/ ChatPersistNotFound
    \/ ChatPersistFail

SpecChat == InitChat /\ [][NextChat]_vars

\* C18: when the text-generation call of /api/chat fails, the request answers
\* with an error and has created neither a conversation nor a turn, also for
\* a start_new request
C18_ChatErrorCreatesNothing ==
    log.upstream_failed =>
        /\ pc = "done"
        /\ status = 500
        /\ log.error_events = 1
        /\ conversations = {ExistingConv}
        /\ turns = StoredTurns
        /\ log.persist_attempts = 0

C18_Witness ==
    /\ pc = "done"
    /\ log.upstream_failed
    /\ req.shape = "new"
    /\ status = 500

(* ------------- a generation stream of at most one text delta ---------- *)
\* the first content_block_delta of the stream
OneDelta ==
    /\ received = <<>>
    /\ NextDelta

\* voice_chat against a generation stream that sends one delta, or none, and
\* then message_stop or an error
NextOneDelta ==
    \/ StartRequest
    \/ OneDelta
    \/ MessageStop
    \/ UpstreamError
    \/ ScanNoMatch
    \/ CutSentence
    \/ FlushTail
    \/ FlushEmpty
    \/ TtsChunk
    \/ TtsDone
    \/ TtsRaise
    \/ OnceOk
    \/ OnceEmpty
    \/ OnceRaise
    \/ Forward
    \/ ClientDisconnect
    \/ PersistTurn
    \/ PersistSkip
    \/ PersistFail

SpecOneDelta == Init /\ [][NextOneDelta]_vars

\* the response was one delta without a terminal mark and the stream ended
SingleFragmentEnd ==
    /\ pc = "done"
    /\ received # <<>>
    /\ \A i \in 1..Len(received) : received[i] \notin Terminal
    /\ ~log.upstream_failed

StreamCalls == SelectSeq(calls, LAMBDA c : c.kind = "stream")

OwnConvIds == 1..MaxConvs
OtherUsersConv == MaxConvs + 1
TurnIds == 1..MaxTurns

\* conversation=None of create_conversation_with_turn
NoneConv == 0

\* the row built by create_conversation_with_turn, with its primary key
ServiceTurn(id, conv, n, voice, attachments) ==
    [id |-> id, conversation_id |-> conv, turn_number |-> n,
     user_input |-> UserMessage, ai_response |-> <<"a">>,
     response_time_ms |-> 0, voice_used |-> voice,
     attachments |-> IF attachments = "[image]" THEN attachments ELSE "None"]

\* primary keys come from uuid4: a key that no stored row has
FreshTurnId ==
    CHOOSE id \in TurnIds :
        /\ \A i \in 1..Len(turns) : turns[i].id # id
        /\ \A other \in TurnIds :
              (\A i \in 1..Len(turns) : turns[i].id # other) => id <= other

FreshConvId ==
    CHOOSE c \in OwnConvIds :
        /\ c \notin conversations
        /\ \A other \in OwnConvIds : other \notin conversations => c <= other

\* get_conversation_by_id: the row, None, or HTTPException(403)
GetConversationById(c) ==
    IF c \notin conversations THEN "None"
    ELSE IF c = OtherUsersConv THEN "Forbidden"
    ELSE "found"

ServiceCall(op, c, t) ==
    [recorded |-> TRUE, op |-> op, conversation_id |-> c, turn_id |-> t]

InitService ==
    /\ pc = "service"
    /\ req = ServiceCall("none", NoneConv, 0)
    /\ draining = FALSE
    /\ buffer = <<>>
    /\ assistant_text = <<>>
    /\ sentence = <<>>
    /\ selected_voice = "None"
    /\ pcm_requested = FALSE
    /\ conversation = NoConv
    /\ header_convo_id = NoConv
    /\ status = 0
    /\ media_type = "none"
    /\ turns = <<ServiceTurn(1, OtherUsersConv, 1, "None", "None")>>
    /\ conversations = {OtherUsersConv}
    /\ sent = <<>>
    /\ pending = NoChunk
    /\ nchunks = 0
    /\ calls = <<>>
    /\ units = <<>>
    /\ received = <<>>
    /\ outcome = <<>>
    /\ log = EmptyLog
    /\ clock = 0
    /\ store = <<>>
    /\ prompts = <<>>
    /\ assignments = <<>>
    /\ variants = <<>>
    /\ active_variant = "None"
    /\ returned = "None"

\* create_conversation_with_turn(user, ..., conversation=passed): the
\* conversation is created when none is passed; the turn is numbered and
\* inserted; both are committed together
CreateConversationWithTurn ==
    /\ pc = "service"
    /\ Len(turns) < MaxTurns
    /\ \E passed \in {NoneConv} \cup (conversations \cap OwnConvIds) :
        /\ passed = NoneConv => OwnConvIds \ conversations # {}
        /\ passed # NoneConv => NextTurnNumber(passed) <= MaxTurns
        /\ LET c == IF passed = NoneConv THEN FreshConvId ELSE passed
           IN /\ conversations' = conversations \cup {c}
              /\ turns' = Append(turns,
                            ServiceTurn(FreshTurnId, c, NextTurnNumber(c),
                                        default_voice, "None"))
              /\ conversation' = c
        /\ req' = ServiceCall("create_conversation_with_turn", passed, 0)
    /\ status' = 200
    /\ UNCHANGED pc
    /\ UNCHANGED <<draining, buffer, assistant_text, sentence,
                   selected_voice, pcm_requested, header_convo_id,
                   media_type, sent, pending, nchunks, calls, units,
                   received, outcome, log>>
    /\ UNCHANGED promptVars

\* delete_conversation: 404 or 403 when the lookup fails, else the
\* conversation is deleted and its turns with it (cascade="all, delete-orphan")
DeleteConversation ==
    /\ pc = "service"
    /\ \E c \in OwnConvIds \cup {OtherUsersConv} :
        /\ req' = ServiceCall("delete_conversation", c, 0)
        /\ IF GetConversationById(c) = "found"
           THEN /\ conversations' = conversations \ {c}
                /\ turns' = SelectSeq(turns, LAMBDA t : t.conversation_id # c)
                /\ status' = 200
           ELSE /\ status' = IF GetConversationById(c) = "None" THEN 404 ELSE 403
                /\ UNCHANGED <<conversations, turns>>
    /\ UNCHANGED <<pc, conversation>>
    /\ UNCHANGED <<draining, buffer, assistant_text, sentence,
                   selected_voice, pcm_requested, header_convo_id,
                   media_type, sent, pending, nchunks, calls, units,
                   received, outcome, log>>
    /\ UNCHANGED promptVars

\* a delete_conversation_turn that leaves the conversation in place whatever
\* remains
DeleteConversationTurnOnly ==
    /\ pc = "service"
    /\ \E c \in OwnConvIds \cup {OtherUsersConv}, t \in TurnIds :
        /\ req' = ServiceCall("delete_conversation_turn", c, t)
        /\ IF GetConversationById(c) # "found"
           THEN /\ status' = IF GetConversationById(c) = "None" THEN 404 ELSE 403
                /\ UNCHANGED <<conversations, turns>>
           ELSE IF ~\E i \in 1..Len(turns) :
                       turns[i].id = t /\ turns[i].conversation_id = c
           THEN /\ status' = 404
                /\ UNCHANGED <<conversations, turns>>
           ELSE /\ turns' = SelectSeq(turns, LAMBDA r : r.id # t)
                /\ conversations' = conversations
                /\ status' = 200
    /\ UNCHANGED <<pc, conversation>>
    /\ UNCHANGED <<draining, buffer, assistant_text, sentence,
                   selected_voice, pcm_requested, header_convo_id,
                   media_type, sent, pending, nchunks, calls, units,
                   received, outcome, log>>
    /\ UNCHANGED promptVars

\* delete_conversation_turn: 404 or 403 when the conversation lookup fails,
\* 404 when the turn is not a turn of that conversation; else the turn is
\* deleted, and the conversation too when no other turn of it remains
DeleteConversationTurn ==
    /\ pc = "service"
    /\ \E c \in OwnConvIds \cup {OtherUsersConv}, t \in TurnIds :
        /\ req' = ServiceCall("delete_conversation_turn", c, t)
        /\ IF GetConversationById(c) # "found"
           THEN /\ status' = IF GetConversationById(c) = "None" THEN 404 ELSE 403
                /\ UNCHANGED <<conversations, turns>>
           ELSE IF ~\E i \in 1..Len(turns) :
                       turns[i].id = t /\ turns[i].conversation_id = c
           THEN /\ status' = 404
                /\ UNCHANGED <<conversations, turns>>
           ELSE LET remaining_turns ==
                      Cardinality({i \in TurnsOf(c) : turns[i].id # t})
                IN /\ turns' = SelectSeq(turns, LAMBDA r : r.id # t)
                   /\ conversations' = IF remaining_turns = 0
                                       THEN conversations \ {c}
                                       ELSE conversations
                   /\ status' = 200
    /\ UNCHANGED <<pc, conversation>>
    /\ UNCHANGED <<draining, buffer, assistant_text, sentence,
                   selected_voice, pcm_requested, header_convo_id,
                   media_type, sent, pending, nchunks, calls, units,
                   received, outcome, log>>
    /\ UNCHANGED promptVars

NextService ==
    \/ CreateConversationWithTurn
    \/ DeleteConversation
    \/ DeleteConversationTurn

SpecService == InitService /\ [][NextService]_vars

\* the primary keys of the turns of a conversation
TurnIdsOf(conv) == {turns[i].id : i \in TurnsOf(conv)}

\* the turn numbers of a conversation, in insertion order
NumbersOf(conv) ==
    LET rows == SelectSeq(turns, LAMBDA r : r.conversation_id = conv)
    IN [i \in 1..Len(rows) |-> rows[i].turn_number]

\* C21: delete_conversation_turn deletes the conversation with the turn
\* exactly when the turn was the last remaining turn of the conversation and
\* keeps it otherwise; no stored conversation ever has zero turns
C21_NoEmptyConversation ==
    /\ [](\A c \in conversations : TurnsOf(c) # {})
    /\ [][(req'.op = "delete_conversation_turn" /\ status' = 200) =>
            /\ req'.turn_id \in TurnIdsOf(req'.conversation_id)
            /\ \A i \in 1..Len(turns') : turns'[i].id # req'.turn_id
            /\ Len(turns') = Len(turns) - 1
            /\ req'.conversation_id \notin conversations'
                 <=> TurnIdsOf(req'.conversation_id) = {req'.turn_id}
            /\ conversations \ {req'.conversation_id}
                 = conversations' \ {req'.conversation_id}]_vars

C21_Witness ==
    /\ req.op = "delete_conversation_turn"
    /\ status = 200
    /\ req.conversation_id \notin conversations
    /\ conversations = {OtherUsersConv}
    /\ TurnIdsOf(OtherUsersConv) = {1}
    /\ req.turn_id = 3

\* C22: a new turn gets number 1 when its conversation has no turns and the
\* highest existing number plus one otherwise, so turns added one after
\* another to a conversation are numbered 1, 2, 3, ...
C22_TurnNumbering ==
    [][req'.op = "create_conversation_with_turn" =>
         LET c == conversation'
             new == turns'[Len(turns')]
         IN /\ Len(turns') = Len(turns) + 1
            /\ new.conversation_id = c
            /\ TurnsOf(c) = {} => new.turn_number = 1
            /\ TurnsOf(c) # {} =>
                 /\ \A i \in TurnsOf(c) : turns[i].turn_number < new.turn_number
                 /\ \E i \in TurnsOf(c) :
                       turns[i].turn_number = new.turn_number - 1
            /\ NumbersOf(c) = [i \in 1..Len(NumbersOf(c)) |-> i] =>
                 new.turn_number = Len(NumbersOf(c)) + 1]_vars

C22_Witness ==
    /\ req.op = "create_conversation_with_turn"
    /\ req.conversation_id # NoneConv
    /\ NumbersOf(conversation) = <<1, 2, 3>>

(* ------------- requests that finalize turns at the same time ---------- *)
Requests == 1..MaxRequests

\* each request is at its read of the last turn, at its insert, or done
RaceInputs ==
    {[recorded |-> TRUE,
      workers |-> [r \in Requests |->
                     [at |-> "read", conversation |-> target[r],
                      next_turn_number |-> 0]]] :
        target \in [Requests -> {ExistingConv, NewConv}]}

InitRace ==
    /\ pc = "race"
    /\ req \in RaceInputs
    /\ draining = FALSE
    /\ buffer = <<>>
    /\ assistant_text = <<>>
    /\ sentence = <<>>
    /\ selected_voice = "None"
    /\ pcm_requested = FALSE
    /\ conversation = NoConv
    /\ header_convo_id = NoConv
    /\ status = 0
    /\ media_type = "none"
    /\ turns = StoredTurns
    /\ conversations = {ExistingConv, NewConv}
    /\ sent = <<>>
    /\ pending = NoChunk
    /\ nchunks = 0
    /\ calls = <<>>
    /\ units = <<>>
    /\ received = <<>>
    /\ outcome = <<>>
    /\ log = EmptyLog
    /\ clock = 0
    /\ store = <<>>
    /\ prompts = <<>>
    /\ assignments = <<>>
    /\ variants = <<>>
    /\ active_variant = "None"
    /\ returned = "None"

\* last_turn = db.query(ConversationTurn)...first(); next_turn_number = ...
\* of one request; nothing is locked
ReadLastTurn(r) ==
    /\ req.workers[r].at = "read"
    /\ req' = [req EXCEPT !.workers[r].at = "insert",
                          !.workers[r].next_turn_number =
                              NextTurnNumber(req.workers[r].conversation)]
    /\ UNCHANGED turns
    /\ UNCHANGED <<pc, draining, buffer, assistant_text, sentence,
                   selected_voice, pcm_requested, conversation,
                   header_convo_id, status, media_type, conversations, sent,
                   pending, nchunks, calls, units, received, outcome, log>>
    /\ UNCHANGED promptVars

\* db.add(turn); db.commit() of one request, with the number it computed;
\* the table has no uniqueness constraint on (conversation_id, turn_number)
CommitTurn(r) ==
    /\ req.workers[r].at = "insert"
    /\ turns' = Append(turns,
                  BuildTurn(req.workers[r].conversation,
                            req.workers[r].next_turn_number,
                            UserMessage, <<"a">>, 0, "none"))
    /\ req' = [req EXCEPT !.workers[r].at = "done"]
    /\ UNCHANGED <<pc, draining, buffer, assistant_text, sentence,
                   selected_voice, pcm_requested, conversation,
                   header_convo_id, status, media_type, conversations, sent,
                   pending, nchunks, calls, units, received, outcome, log>>
    /\ UNCHANGED promptVars

NextRace ==
    \/ \E r \in Requests : ReadLastTurn(r)
    \/ \E r \in Requests : CommitTurn(r)

SpecRace == InitRace /\ [][NextRace]_vars

\* C29: whatever the interleaving of the read-last-turn and insert steps of
\* requests that finalize turns on the same conversation, the persisted turns
\* of a conversation have pairwise distinct turn numbers
C29_DistinctTurnNumbers ==
    \A i \in 1..Len(turns) : \A j \in 1..Len(turns) :
        (i # j /\ turns[i].conversation_id = turns[j].conversation_id) =>
            turns[i].turn_number # turns[j].turn_number

(* ------------------------- PromptVariantManager ----------------------- *)
\* DEFAULT_PROMPT.name and the names of the other two built-in variants
DefaultVariantName == "socratic_v1"
BuiltInVariantNames ==
    {DefaultVariantName, "empathetic_tutor_v1", "empathetic_tutor_markdown_v1"}

\* names that the calls are made with
VariantNames == BuiltInVariantNames \cup {"custom_v1", "non_existent_variant"}

\* values of PROMPT_VARIANT
ConfiguredVariants == BuiltInVariantNames \cup {"custom_v1"}

VariantCall(op, name) == [recorded |-> TRUE, op |-> op, name |-> name]

\* PromptVariantManager(): the three built-in variants are added, then the
\* configured variant is activated if it is one of them, else the default
InitVariants ==
    /\ pc = "variants"
    /\ req = VariantCall("__init__", "None")
    /\ draining = FALSE
    /\ buffer = <<>>
    /\ assistant_text = <<>>
    /\ sentence = <<>>
    /\ selected_voice = "None"
    /\ pcm_requested = FALSE
    /\ conversation = NoConv
    /\ header_convo_id = NoConv
    /\ status = 0
    /\ media_type = "none"
    /\ turns = <<>>
    /\ conversations = {}
    /\ sent = <<>>
    /\ pending = NoChunk
    /\ nchunks = 0
    /\ calls = <<>>
    /\ units = <<>>
    /\ received = <<>>
    /\ outcome = <<>>
    /\ log = EmptyLog
    /\ clock = 0
    /\ store = <<>>
    /\ prompts = <<>>
    /\ assignments = <<>>
    /\ variants = [n \in BuiltInVariantNames |-> 1]
    /\ active_variant \in {IF c \in BuiltInVariantNames THEN c ELSE DefaultVariantName :
                           c \in ConfiguredVariants}
    /\ returned = "None"

\* add_variant(variant): ValueError for a value that is no BasePrompt, else
\* the variant is stored under its name, replacing one of the same name
AddVariant ==
    /\ pc = "variants"
    /\ \E name \in VariantNames \ {"non_existent_variant"},
          version \in 1..MaxVersions, is_prompt \in BOOLEAN :
        /\ req' = VariantCall("add_variant", name)
        /\ IF is_prompt
           THEN /\ variants' = [n \in DOMAIN variants \cup {name} |->
                                  IF n = name THEN version ELSE variants[n]]
                /\ returned' = "None"
           ELSE /\ variants' = variants
                /\ returned' = "ValueError"
    /\ UNCHANGED active_variant
    /\ UNCHANGED <<pc, draining, buffer, assistant_text, sentence,
                   selected_voice, pcm_requested, conversation,
                   header_convo_id, status, media_type, turns, conversations,
                   sent, pending, nchunks, calls, units, received, outcome,
                   log, clock, store, prompts, assignments>>

\* set_active_variant(variant_name)
SetActiveVariant ==
    /\ pc = "variants"
    /\ \E name \in VariantNames :
        /\ req' = VariantCall("set_active_variant", name)
        /\ IF name \in DOMAIN variants
           THEN /\ active_variant' = name
                /\ returned' = "True"
           ELSE /\ active_variant' = active_variant
                /\ returned' = "False"
    /\ UNCHANGED variants
    /\ UNCHANGED <<pc, draining, buffer, assistant_text, sentence,
                   selected_voice, pcm_requested, conversation,
                   header_convo_id, status, media_type, turns, conversations,
                   sent, pending, nchunks, calls, units, received, outcome,
                   log, clock, store, prompts, assignments>>

\* a remove_variant that leaves active_variant as it is
RemoveVariantKeepActive ==
    /\ pc = "variants"
    /\ \E name \in VariantNames :
        /\ req' = VariantCall("remove_variant", name)
        /\ IF name = DefaultVariantName
           THEN /\ returned' = "False"
                /\ UNCHANGED <<variants, active_variant>>
           ELSE IF name \in DOMAIN variants
           THEN /\ variants' = [n \in DOMAIN variants \ {name} |-> variants[n]]
                /\ active_variant' = active_variant
                /\ returned' = "True"
           ELSE /\ returned' = "False"
                /\ UNCHANGED <<variants, active_variant>>
    /\ UNCHANGED <<pc, draining, buffer, assistant_text, sentence,
                   selected_voice, pcm_requested, conversation,
                   header_convo_id, status, media_type, turns, conversations,
                   sent, pending, nchunks, calls, units, received, outcome,
                   log, clock, store, prompts, assignments>>

\* remove_variant(variant_name): refused for the default variant; a stored
\* variant is deleted and, if it was the active one, the default is activated
RemoveVariant ==
    /\ pc = "variants"
    /\ \E name \in VariantNames :
        /\ req' = VariantCall("remove_variant", name)
        /\ IF name = DefaultVariantName
           THEN /\ returned' = "False"
                /\ UNCHANGED <<variants, active_variant>>
           ELSE IF name \in DOMAIN variants
           THEN /\ variants' = [n \in DOMAIN variants \ {name} |-> variants[n]]
                /\ active_variant' =
                     IF active_variant = name
                     THEN (IF DefaultVariantName \in DOMAIN variants'
                           THEN DefaultVariantName ELSE active_variant)
                     ELSE active_variant
                /\ returned' = "True"
           ELSE /\ returned' = "False"
                /\ UNCHANGED <<variants, active_variant>>
    /\ UNCHANGED <<pc, draining, buffer, assistant_text, sentence,
                   selected_voice, pcm_requested, conversation,
                   header_convo_id, status, media_type, turns, conversations,
                   sent, pending, nchunks, calls, units, received, outcome,
                   log, clock, store, prompts, assignments>>

\* reset_to_default(): set_active_variant(DEFAULT_PROMPT.name)
ResetToDefault ==
    /\ pc = "variants"
    /\ req' = VariantCall("reset_to_default", DefaultVariantName)
    /\ active_variant' = IF DefaultVariantName \in DOMAIN variants
                         THEN DefaultVariantName ELSE active_variant
    /\ returned' = "None"
    /\ UNCHANGED variants
    /\ UNCHANGED <<pc, draining, buffer, assistant_text, sentence,
                   selected_voice, pcm_requested, conversation,
                   header_convo_id, status, media_type, turns, conversations,
                   sent, pending, nchunks, calls, units, received, outcome,
                   log, clock, store, prompts, assignments>>

NextVariants ==
    \/ AddVariant
    \/ SetActiveVariant
    \/ RemoveVariant
    \/ ResetToDefault

SpecVariants == InitVariants /\ [][NextVariants]_vars

\* C30: after any sequence of add_variant, remove_variant, set_active_variant
\* and reset_to_default the active variant names a stored variant;
\* set_active_variant with an unknown name returns False and leaves the
\* active variant unchanged; the default variant cannot be removed; removing
\* the active variant makes the default the active variant
C30_ActiveVariantStored ==
    /\ [](active_variant \in DOMAIN variants)
    /\ [](DefaultVariantName \in DOMAIN variants)
    /\ [][/\ (req'.op = "set_active_variant" /\ req'.name \notin DOMAIN variants)
              => (returned' = "False" /\ active_variant' = active_variant)
          /\ (req'.op = "remove_variant" /\ req'.name = DefaultVariantName)
              => (returned' = "False" /\ variants' = variants)
          /\ (req'.op = "remove_variant" /\ req'.name = active_variant
                /\ req'.name # DefaultVariantName)
              => /\ returned' = "True"
                 /\ req'.name \notin DOMAIN variants'
                 /\ active_variant' = DefaultVariantName]_vars

C30_Witness ==
    /\ req.op = "set_active_variant"
    /\ req.name \notin DOMAIN variants
    /\ returned = "False"
    /\ active_variant = "custom_v1"
    /\ "empathetic_tutor_v1" \notin DOMAIN variants

(* ----------------------------- PromptService -------------------------- *)
\* _cache_key: "conv:<c>|user:<u>|task:<t>|mode:<m>", with "_" for a missing
\* part; the string is kept as its "|"-separated segments
CacheKey(task, mode, user_id, conversation_id) ==
    << <<"conv", IF conversation_id = "None" THEN "_" ELSE conversation_id>>,
       <<"user", IF user_id = "None" THEN "_" ELSE user_id>>,
       <<"task", IF task = "None" THEN "_" ELSE task>>,
       <<"mode", IF mode = "None" THEN "_" ELSE mode>> >>

\* k.startswith(prefix) for a prefix that ends with "|" (or is empty)
StartsWith(key, prefix) ==
    /\ Len(prefix) <= Len(key)
    /\ SubSeq(key, 1, Len(prefix)) = prefix

\* _TtlCache.invalidate_prefix
InvalidatePrefix(st, prefix) ==
    [k \in {x \in DOMAIN st : ~StartsWith(x, prefix)} |-> st[k]]

\* _TtlCache.get: the entry, unless it is missing or now() >= expires_at
CacheHit(key) == key \in DOMAIN store /\ clock < store[key].expires_at

\* the store after _TtlCache.get(key): an expired entry is deleted
AfterGet(key) ==
    IF key \in DOMAIN store /\ ~CacheHit(key)
    THEN [k \in DOMAIN store \ {key} |-> store[k]]
    ELSE store

\* _TtlCache.set: expires_at = now + max(1, int(ttl_seconds))
CacheSet(st, key, value, ttl_seconds) ==
    [k \in DOMAIN st \cup {key} |->
        IF k = key
        THEN [value |-> value,
              expires_at |-> clock + (IF ttl_seconds < 1 THEN 1 ELSE ttl_seconds)]
        ELSE st[k]]

\* bool(content.strip())
Blank == " "
PromptContent(id) == IF id = 1 THEN "V1" ELSE "V2"

\* the assignments of one level that join an active prompt, by position in
\* effective_at order
Candidates(scope, user_id, conversation_id) ==
    {i \in 1..Len(assignments) :
        /\ assignments[i].scope = scope
        /\ scope = "conversation" => assignments[i].conversation_id = conversation_id
        /\ scope = "user" => assignments[i].user_id = user_id
        /\ prompts[assignments[i].prompt_id].is_active}

Newest(S) == CHOOSE i \in S : \A j \in S : j <= i

\* _resolve_assigned_prompt: conversation, then user, then global; 0 for None
ResolveAssignedPrompt(user_id, conversation_id) ==
    IF conversation_id # "None"
       /\ Candidates("conversation", user_id, conversation_id) # {}
    THEN assignments[Newest(Candidates("conversation", user_id,
                                       conversation_id))].prompt_id
    ELSE IF user_id # "None" /\ Candidates("user", user_id, conversation_id) # {}
    THEN assignments[Newest(Candidates("user", user_id,
                                       conversation_id))].prompt_id
    ELSE IF Candidates("global", user_id, conversation_id) # {}
    THEN assignments[Newest(Candidates("global", user_id,
                                       conversation_id))].prompt_id
    ELSE 0

\* the (scope, user_id, conversation_id) arguments assign_prompt is called with
AssignmentTargets ==
    {[scope |-> "user", user_id |-> "u1", conversation_id |-> "None"],
     [scope |-> "user", user_id |-> "u1", conversation_id |-> "c1"],
     [scope |-> "conversation", user_id |-> "None", conversation_id |-> "c1"],
     [scope |-> "global", user_id |-> "None", conversation_id |-> "None"]}

\* PromptService(db, ttl_seconds) and app_settings.prompts_from_db
PromptInputs ==
    {[recorded |-> TRUE, ttl_seconds |-> ttl, prompts_from_db |-> flag,
      op |-> "__init__", scope |-> "None", user_id |-> "None",
      conversation_id |-> "None"] :
        ttl \in {MaxClock}, flag \in BOOLEAN}

PromptCall(op, scope, user_id, conversation_id) ==
    [req EXCEPT !.op = op, !.scope = scope, !.user_id = user_id,
                !.conversation_id = conversation_id]

InitPrompt ==
    /\ pc = "prompts"
    /\ req \in PromptInputs
    /\ draining = FALSE
    /\ buffer = <<>>
    /\ assistant_text = <<>>
    /\ sentence = <<>>
    /\ selected_voice = "None"
    /\ pcm_requested = FALSE
    /\ conversation = NoConv
    /\ header_convo_id = NoConv
    /\ status = 0
    /\ media_type = "none"
    /\ turns = <<>>
    /\ conversations = {}
    /\ sent = <<>>
    /\ pending = NoChunk
    /\ nchunks = 0
    /\ calls = <<>>
    /\ units = <<>>
    /\ received = <<>>
    /\ outcome = <<>>
    /\ log = EmptyLog
    /\ clock = 0
    /\ store = <<>>
    /\ prompts = <<>>
    /\ assignments = <<>>
    /\ variants = <<>>
    /\ active_variant = "None"
    /\ returned = "None"

\* time.time() advances
Tick ==
    /\ pc = "prompts"
    /\ clock < MaxClock
    /\ clock' = clock + 1
    /\ UNCHANGED <<req, store, prompts, assignments, returned>>
    /\ UNCHANGED <<pc, draining, buffer, assistant_text, sentence,
                   selected_voice, pcm_requested, conversation,
                   header_convo_id, status, media_type, turns, conversations,
                   sent, pending, nchunks, calls, units, received, outcome,
                   log, variants, active_variant>>

\* create_prompt(name, content, is_active=...)
CreatePrompt ==
    /\ pc = "prompts"
    /\ Len(prompts) < MaxPrompts
    /\ \E kind \in {"active", "inactive", "blank"} :
        prompts' = Append(prompts,
                     [content |-> IF kind = "blank" THEN Blank
                                  ELSE PromptContent(Len(prompts) + 1),
                      is_active |-> kind # "inactive"])
    /\ req' = PromptCall("create_prompt", "None", "None", "None")
    /\ returned' = "Prompt"
    /\ UNCHANGED <<clock, store, assignments>>
    /\ UNCHANGED <<pc, draining, buffer, assistant_text, sentence,
                   selected_voice, pcm_requested, conversation,
                   header_convo_id, status, media_type, turns, conversations,
                   sent, pending, nchunks, calls, units, received, outcome,
                   log, variants, active_variant>>

\* set_prompt_active: None for an unknown id; else the flag is stored and the
\* whole cache is invalidated
SetPromptActive ==
    /\ pc = "prompts"
    /\ \E id \in 1..MaxPrompts, active \in BOOLEAN :
        /\ req' = PromptCall("set_prompt_active", "None", "None", "None")
        /\ IF id \in 1..Len(prompts)
           THEN /\ prompts' = [prompts EXCEPT ![id].is_active = active]
                /\ store' = InvalidatePrefix(store, <<>>)
                /\ returned' = "Prompt"
           ELSE /\ UNCHANGED <<prompts, store>>
                /\ returned' = "None"
    /\ UNCHANGED <<clock, assignments>>
    /\ UNCHANGED <<pc, draining, buffer, assistant_text, sentence,
                   selected_voice, pcm_requested, conversation,
                   header_convo_id, status, media_type, turns, conversations,
                   sent, pending, nchunks, calls, units, received, outcome,
                   log, variants, active_variant>>

\* an assign_prompt that drops every cached resolution of the assigned user
AssignPromptDropsUserKeys ==
    /\ pc = "prompts"
    /\ Len(assignments) < MaxPrompts
    /\ prompts # <<>>
    /\ \A i \in 1..Len(assignments) : assignments[i].prompt_id # Len(prompts)
    /\ \E target \in AssignmentTargets, id \in {Len(prompts)} :
        /\ assignments' = Append(assignments,
                            [scope |-> target.scope, user_id |-> target.user_id,
                             conversation_id |-> target.conversation_id,
                             prompt_id |-> id])
        /\ req' = PromptCall("assign_prompt", target.scope, target.user_id,
                             target.conversation_id)
        /\ store' = [k \in {x \in DOMAIN store :
                              target.user_id = "None"
                              \/ x[2] # <<"user", target.user_id>>} |-> store[k]]
    /\ returned' = "PromptAssignment"
    /\ UNCHANGED <<clock, prompts>>
    /\ UNCHANGED <<pc, draining, buffer, assistant_text, sentence,
                   selected_voice, pcm_requested, conversation,
                   header_convo_id, status, media_type, turns, conversations,
                   sent, pending, nchunks, calls, units, received, outcome,
                   log, variants, active_variant>>

\* assign_prompt, called once for the prompt created last: the row is inserted
\* with effective_at = now, then
\* invalidate_prefix("conv:<id>|") if a conversation is given,
\* invalidate_prefix("user:<id>|") if a user is given, and
\* invalidate_prefix("global|")
AssignPrompt ==
    /\ pc = "prompts"
    /\ Len(assignments) < MaxPrompts
    /\ prompts # <<>>
    /\ \A i \in 1..Len(assignments) : assignments[i].prompt_id # Len(prompts)
    /\ \E target \in AssignmentTargets, id \in {Len(prompts)} :
        /\ assignments' = Append(assignments,
                            [scope |-> target.scope, user_id |-> target.user_id,
                             conversation_id |-> target.conversation_id,
                             prompt_id |-> id])
        /\ req' = PromptCall("assign_prompt", target.scope, target.user_id,
                             target.conversation_id)
        /\ LET s1 == IF target.conversation_id # "None"
                     THEN InvalidatePrefix(store,
                              << <<"conv", target.conversation_id>> >>)
                     ELSE store
               s2 == IF target.user_id # "None"
                     THEN InvalidatePrefix(s1, << <<"user", target.user_id>> >>)
                     ELSE s1
           IN store' = InvalidatePrefix(s2, << <<"global">> >>)
    /\ returned' = "PromptAssignment"
    /\ UNCHANGED <<clock, prompts>>
    /\ UNCHANGED <<pc, draining, buffer, assistant_text, sentence,
                   selected_voice, pcm_requested, conversation,
                   header_convo_id, status, media_type, turns, conversations,
                   sent, pending, nchunks, calls, units, received, outcome,
                   log, variants, active_variant>>

\* get_effective_prompt_content(user_id="u1", conversation_id=...): the
\* in-memory prompt when prompts_from_db is off; else the cached content, or
\* the resolved prompt's non-blank content, which is cached; else the
\* fallback prompt_manager.get_prompt(...), which either raises or gives the
\* in-memory content, which is cached
GetEffectivePromptContent ==
    /\ pc = "prompts"
    /\ \E conversation_id \in {"None", "c1"}, fallback \in {"raise", "IN_MEMORY"} :
        LET key == CacheKey("None", "None", "u1", conversation_id)
            id == ResolveAssignedPrompt("u1", conversation_id)
        IN /\ req' = PromptCall("get_effective_prompt_content", "None", "u1",
                                conversation_id)
           /\ IF ~req.prompts_from_db
              THEN /\ returned' = fallback
                   /\ store' = store
              ELSE IF CacheHit(key)
              THEN /\ returned' = store[key].value
                   /\ store' = store
              ELSE IF id # 0 /\ prompts[id].content # Blank
              THEN /\ returned' = prompts[id].content
                   /\ store' = CacheSet(AfterGet(key), key, prompts[id].content,
                                        req.ttl_seconds)
              ELSE IF fallback = "raise"
              THEN /\ returned' = "raise"
                   /\ store' = AfterGet(key)
              ELSE /\ returned' = fallback
                   /\ store' = CacheSet(AfterGet(key), key, fallback,
                                        req.ttl_seconds)
    /\ UNCHANGED <<clock, prompts, assignments>>
    /\ UNCHANGED <<pc, draining, buffer, assistant_text, sentence,
                   selected_voice, pcm_requested, conversation,
                   header_convo_id, status, media_type, turns, conversations,
                   sent, pending, nchunks, calls, units, received, outcome,
                   log, variants, active_variant>>

NextPrompt ==
    \/ Tick
    \/ CreatePrompt
    \/ SetPromptActive
    \/ AssignPrompt
    \/ GetEffectivePromptContent

SpecPrompt == InitPrompt /\ [][NextPrompt]_vars

\* the key of the last get_effective_prompt_content call
LastKey == CacheKey("None", "None", req.user_id, req.conversation_id)

\* the user-scope assignments of a user, whatever their prompt
UserAssignments(user_id) ==
    {i \in 1..Len(assignments) :
        assignments[i].scope = "user" /\ assignments[i].user_id = user_id}

\* C23: a user-scope assignment made through assign_prompt does not become
\* visible while a cached resolution is unexpired (the cached content is
\* returned), and once the TTL has elapsed the newly assigned prompt's
\* content is returned
C23_StaleUntilTtl ==
    [][/\ (req'.op = "assign_prompt" /\ clock' = clock /\ req'.scope = "user")
            => store' = store
       /\ (req'.op = "get_effective_prompt_content" /\ clock' = clock
             /\ req.prompts_from_db) =>
            LET key == CacheKey("None", "None", req'.user_id,
                                req'.conversation_id)
            IN /\ CacheHit(key) => returned' = store[key].value
               /\ (~CacheHit(key) /\ UserAssignments(req'.user_id) # {}) =>
                    returned' = prompts[assignments[
                        Newest(UserAssignments(req'.user_id))].prompt_id].content
      ]_vars

\* C23 amended: a user-scope assignment made without a conversation_id leaves
\* every cached resolution in place, a get returns the cached content while
\* the entry is unexpired, and a get without an unexpired entry returns the
\* content of the newest user-scope assignment's prompt when that prompt is
\* active with non-blank content and no conversation-scope assignment of an
\* active prompt applies
C23_StaleUntilTtlForActivePrompt ==
    [][/\ (req'.op = "assign_prompt" /\ clock' = clock /\ req'.scope = "user"
             /\ req'.conversation_id = "None") => store' = store
       /\ (req'.op = "get_effective_prompt_content" /\ clock' = clock
             /\ req.prompts_from_db) =>
            LET key == CacheKey("None", "None", req'.user_id,
                                req'.conversation_id)
                users == UserAssignments(req'.user_id)
            IN /\ CacheHit(key) =>
                    (returned' = store[key].value /\ store' = store)
               /\ (/\ ~CacheHit(key)
                   /\ users # {}
                   /\ prompts[assignments[Newest(users)].prompt_id].is_active
                   /\ prompts[assignments[Newest(users)].prompt_id].content
                        # Blank
                   /\ Candidates("conversation", req'.user_id,
                                 req'.conversation_id) = {}) =>
                    /\ returned' =
                         prompts[assignments[Newest(users)].prompt_id].content
                    /\ store'[key].value = returned'
                    /\ store'[key].expires_at > clock
      ]_vars

\* the cached content is returned although a newer assignment would resolve
\* to another prompt
C23_Witness ==
    /\ req.op = "get_effective_prompt_content"
    /\ req.conversation_id = "None"
    /\ returned = "V1"
    /\ CacheHit(LastKey)
    /\ Len(assignments) = 2
    /\ assignments[2].scope = "user"
    /\ assignments[2].prompt_id = 2
    /\ prompts[2] = [content |-> "V2", is_active |-> TRUE]

(* --------------------- the pipeline, further claims ------------------- *)
\* C24: while the generation stream is read, a unit is cut only at a terminal
\* mark that is followed in the buffer by a whitespace character: the unit is
\* the buffer up to that mark, the first such mark, it ends with the mark, and
\* what stays in the buffer starts after the whitespace that followed; a
\* buffer without such a mark (a mark before a letter, a mark at the end of
\* the buffer) gives no unit
C24_CutAtMarkBeforeWhitespace ==
    [][pc = "scan" =>
         /\ (~\E i \in 1..(Len(buffer) - 1) :
                 buffer[i] \in Terminal /\ buffer[i + 1] \in Whitespace)
               => units' = units /\ calls' = calls /\ buffer' = buffer
         /\ units' # units =>
               LET u == units'[Len(units')]
                   n == Len(u)
               IN  /\ units' = Append(units, u)
                   /\ n >= 1
                   /\ u[n] \in Terminal
                   /\ n < Len(buffer)
                   /\ u = SubSeq(buffer, 1, n)
                   /\ buffer[n + 1] \in Whitespace
                   /\ \A j \in 1..(n - 1) :
                         ~(buffer[j] \in Terminal /\ buffer[j + 1] \in Whitespace)
                   /\ \E e \in (n + 1)..Len(buffer) :
                         /\ \A j \in (n + 1)..e : buffer[j] \in Whitespace
                         /\ buffer' = SubSeq(buffer, e + 1, Len(buffer))
                         /\ buffer' # <<>> => buffer'[1] \notin Whitespace]_vars

C24_Witness ==
    /\ pc = "events"
    /\ ~draining
    /\ received = <<"a", "?", " ", ".">>
    /\ units = << <<"a", "?">> >>
    /\ buffer = <<".">>

PhaseRank ==
    CASE pc \in {"idle", "rejected"} -> 0
      [] pc \in {"events", "scan"} -> 1
      [] pc \in {"tts", "once", "yield"} -> IF draining THEN 2 ELSE 1
      [] pc = "flush" -> 2
      [] pc = "persist" -> 3
      [] pc = "done" -> 4

\* C26: in a request whose generation stream does not fail and whose client
\* stays connected, every step keeps the phase or moves it to the next one
\* of Idle, Streaming, Draining, Finalizing, Done; a step in which the
\* synthesis of a unit fails keeps the phase; a text delta is consumed only
\* in Streaming; and Done is entered only from Finalizing
C26_PhaseOrder ==
    [][(~log'.upstream_failed /\ ~log'.closed) =>
         /\ PhaseRank' \in {PhaseRank, PhaseRank + 1}
         /\ (Len(outcome') = Len(outcome) /\ outcome' # outcome
              /\ outcome'[Len(outcome')] \in {"fallback_called", "failed"})
               => PhaseRank' = PhaseRank
         /\ received' # received => PhaseRank = 1 /\ PhaseRank' = 1
         /\ (pc' = "done" /\ pc # "done") => pc = "persist"]_vars

\* C27: for every unit at most one streaming synthesis call and at most one
\* one-shot call have been made, at every moment of every run, so that no
\* request makes more than two synthesis calls per unit
C27_NoRetry ==
    /\ \A u \in 1..Len(units) :
         \A k \in {"stream", "once"} :
           Cardinality({i \in 1..Len(calls) :
                           calls[i].unit = u /\ calls[i].kind = k}) <= 1
    /\ \A i \in 1..Len(calls) : calls[i].kind \in {"stream", "once"}
    /\ Len(calls) <= 2 * Len(units)

C27_Witness ==
    /\ pc = "done"
    /\ outcome = <<"failed", "fallback">>
    /\ Len(calls) = 4
    /\ calls[1].kind = "stream" /\ calls[2].kind = "once"
    /\ calls[3].kind = "stream" /\ calls[4].kind = "once"
    /\ calls[2].unit = 1 /\ calls[4].unit = 2

\* C28: what has been forwarded is never taken back; and for a unit whose
\* streaming call raised after k >= 1 of its chunks were forwarded and whose
\* one-shot call returned audio that was forwarded, the audio forwarded for
\* the unit is those k chunks in their order followed by the one fallback
\* blob, all of it before every chunk of a later unit
C28_PartialStreamThenFallback ==
    /\ [][SubSeq(sent', 1, Len(sent)) = sent]_vars
    /\ [](\A u \in 1..Len(units) :
            LET mine == SelectSeq(sent, LAMBDA c : c.unit = u)
                k == Cardinality({i \in 1..Len(sent) :
                                     sent[i].unit = u /\ sent[i].src = "stream"})
            IN  (/\ k >= 1
                 /\ outcome[u] = "fallback"
                 /\ (pending = NoChunk \/ pending.unit # u)
                 /\ (~log.closed \/ u < Len(units))) =>
                    /\ Len(mine) = k + 1
                    /\ \A i \in 1..k :
                          mine[i] = [unit |-> u, src |-> "stream", idx |-> i]
                    /\ mine[k + 1] = [unit |-> u, src |-> "once", idx |-> 1]
                    /\ \A i, j \in 1..Len(sent) :
                          (sent[i].unit = u /\ sent[j].unit > u) => i < j)

C28_Witness ==
    /\ Len(units) = 2
    /\ outcome[1] = "fallback"
    /\ sent = <<[unit |-> 1, src |-> "stream", idx |-> 1],
                [unit |-> 1, src |-> "stream", idx |-> 2],
                [unit |-> 1, src |-> "once", idx |-> 1],
                [unit |-> 2, src |-> "stream", idx |-> 1]>>

====
